---- MODULE Spec2Model ----
(***************************************************************************)
(* Dependency-graph tool (src/main.py): stage 2 obtains the direct         *)
(* dependencies (local / remote manifest, or a test graph), stage 3 builds *)
(* a depth-bounded BFS graph and prints it as an indented tree.            *)
(*                                                                         *)
(* Three state machines share the module:                                  *)
(*   Spec       main(): stage 2, build_bfs_graph, print_tree, node total   *)
(*   FairSpec   the same steps under weak fairness of stage 3              *)
(*   SpecParse  parse_direct_deps over a manifest given as token lines     *)
(*   SpecFetch  fetch_remote_cargo against a remote that may fail          *)
(***************************************************************************)
EXTENDS Integers, Sequences, FiniteSets, TLC

\* ------------------------------------------------------------------ bounds
MaxEdges == 4
MaxDepth == 5
MaxLines == 3
MaxSegs == 3

\* ------------------------------------------------------- package names
Nodes == {"A", "B", "C", "D"}

\* Python's string order on the names, as used by sorted().
Rank(n) == CASE n = "A" -> 1 [] n = "B" -> 2 [] n = "C" -> 3 [] OTHER -> 4

EmptyFn == [n \in {} |-> {}]

Range(s) == {s[i] : i \in DOMAIN s}

VARIABLES
  \* main()
  pc, mode, package_name, max_depth, deps, root, reported, total,
  \* build_bfs_graph
  graph, visited, queue, queried,
  \* print_tree
  printed, stack, out,
  \* parse_direct_deps
  ppc, text, idx, current, pdeps,
  \* fetch_remote_cargo
  fpc, repo_url, branch_i, attempts, fresult

mainVars == <<pc, mode, package_name, max_depth, deps, root, reported, total>>
bfsVars == <<graph, visited, queue, queried>>
printVars == <<printed, stack, out>>
parseVars == <<ppc, text, idx, current, pdeps>>
fetchVars == <<fpc, repo_url, branch_i, attempts, fresult>>
vars == <<mainVars, bfsVars, printVars, parseVars, fetchVars>>

\* ============================================================== main()
Modes == {"local", "remote", "test"}

\* The test graphs: adjacency tables over Nodes with at most MaxEdges edges.
\* parse_test_graph gives a key to every node that has a line of its own.
Relations == {R \in SUBSET (Nodes \X Nodes) : Cardinality(R) <= MaxEdges}

TableOf(R) ==
  [n \in {e[1] : e \in R} |-> {e[2] : e \in {x \in R : x[1] = n}}]

\* What each dependency source can raise (all reach main's except clause).
SourceErrors(m) ==
  CASE m = "local" -> {"ManifestNotFound", "ReadError"}
    [] m = "remote" -> {"FetchError", "ManifestNotFound", "UnsupportedSource"}
    [] OTHER -> {"MalformedTestGraph"}

AllSourceErrors == UNION {SourceErrors(m) : m \in Modes}

\* main's except clause: report, then sys.exit(1).
OnSourceErrorMut == "stage3"
OnSourceError == "exit"

\* The two get_deps closures of stage 3.
get_deps(name) ==
  IF mode = "test"
    THEN IF name \in DOMAIN deps.table THEN deps.table[name] ELSE {}
    ELSE IF name = root THEN deps.direct ELSE {}

\* ------------------------------------------------------ build_bfs_graph
AlreadyVisitedMut(node, seen) == FALSE
AlreadyVisited(node, seen) == node \in seen

BfsDescendMut(depth, md) == depth <= md
BfsDescend(depth, md) == depth < md

PopLeftMut(q) == q
PopLeft(q) == Tail(q)

\* The orders in which Python may iterate over a set.
Orderings(S) ==
  {s \in [1..Cardinality(S) -> S] : \A i, j \in 1..Cardinality(S) : s[i] = s[j] => i = j}

\* graph[node].update(ds) on the defaultdict(set).
GraphUpdate(g, node, ds) ==
  [n \in DOMAIN g \cup {node} |->
     IF n = node THEN (IF node \in DOMAIN g THEN g[node] ELSE {}) \cup ds ELSE g[n]]

\* ----------------------------------------------------------- print_tree
AnnotationMut(node, path, done) ==
  IF node \in done THEN "visited" ELSE IF node \in path THEN "cycle" ELSE ""
Annotation(node, path, done) ==
  IF node \in path THEN "cycle" ELSE IF node \in done THEN "visited" ELSE ""

MarkPrintedMut(done, node) == done
MarkPrinted(done, node) == done \cup {node}

PrintTruncate(depth, md) == depth >= md

\* graph.get(node, [])
Children(g, node) == IF node \in DOMAIN g THEN g[node] ELSE {}

RECURSIVE Sorted(_)
Sorted(S) ==
  IF S = {} THEN <<>>
  ELSE LET m == CHOOSE x \in S : \A y \in S : Rank(x) <= Rank(y)
       IN <<m>> \o Sorted(S \ {m})

Frames(kids, depth, path) ==
  [i \in 1..Len(kids) |-> [node |-> kids[i], depth |-> depth, path |-> path]]

\* ---------------------------------------------------- fetch_remote_cargo
\* A URL is its host and its path segments ("" is the empty segment that a
\* doubled or trailing slash leaves).
Hosts == {"github.com", "www.github.com", "gitlab.com"}
Segments == {"owner", "repo", "repo.git", "Cargo.toml", ""}

\* repo_url.rstrip().endswith('Cargo.toml')
EndsWithManifest(u) == u.segs # <<>> /\ u.segs[Len(u.segs)] = "Cargo.toml"

\* 'github.com' in parsed.netloc
OnGithub(u) == u.host \in {"github.com", "www.github.com"}

\* [p for p in parsed.path.split('/') if p]
Parts(u) == SelectSeq(u.segs, LAMBDA p : p # "")

\* if repo.endswith('.git'): repo = repo[:-4]
StripGit(r) == IF r = "repo.git" THEN "repo" ELSE r

\* for branch in ('main', 'master')
BranchesMut == <<"master", "main">>
Branches == <<"main", "master">>

DirectTarget == [kind |-> "direct", owner |-> "", repo |-> "", branch |-> ""]
RawTarget(u, b) ==
  [kind |-> "raw", owner |-> Parts(u)[1], repo |-> StripGit(Parts(u)[2]), branch |-> b]
NoTarget == [kind |-> "none", owner |-> "", repo |-> "", branch |-> ""]

NoResult == [status |-> "none", from |-> NoTarget, error |-> ""]
TextOf(t) == [status |-> "text", from |-> t, error |-> ""]
Raised(e) == [status |-> "raised", from |-> NoTarget, error |-> e]

MainIdle ==
  /\ pc = "idle" /\ mode = "" /\ package_name = "" /\ max_depth = 0
  /\ deps = [direct |-> {}, table |-> EmptyFn]
  /\ root = "" /\ reported = "" /\ total = 0
  /\ graph = EmptyFn /\ visited = {} /\ queue = <<>> /\ queried = <<>>
  /\ printed = {} /\ stack = <<>> /\ out = <<>>

ParseIdle ==
  ppc = "idle" /\ text = <<>> /\ idx = 0 /\ current = <<>> /\ pdeps = {}

FetchIdle ==
  /\ fpc = "idle" /\ repo_url = [host |-> "", segs |-> <<>>]
  /\ branch_i = 0 /\ attempts = <<>> /\ fresult = NoResult

\* --------------------------------------------------------------- actions
Init ==
  /\ pc = "stage2"
  /\ mode \in Modes
  /\ package_name \in (IF mode = "test" THEN Nodes \cup {""} ELSE Nodes)
  /\ max_depth \in 1..MaxDepth
  /\ deps = [direct |-> {}, table |-> EmptyFn]
  /\ root = ""
  /\ reported = ""
  /\ total = 0
  /\ graph = EmptyFn /\ visited = {} /\ queue = <<>> /\ queried = <<>>
  /\ printed = {} /\ stack = <<>> /\ out = <<>>
  /\ ParseIdle /\ FetchIdle

\* Stage 2, the dependency source raises: the error is reported and the run exits.
SourceFails ==
  /\ pc = "stage2"
  /\ \E e \in SourceErrors(mode) : reported' = e
  /\ pc' = OnSourceError
  /\ UNCHANGED <<mode, package_name, max_depth, deps, root, total>>
  /\ UNCHANGED <<bfsVars, printVars, parseVars, fetchVars>>

\* Stage 2, mode local / remote: deps is the set parse_direct_deps returned.
GetDirectDependencies ==
  /\ pc = "stage2"
  /\ mode \in {"local", "remote"}
  /\ \E S \in SUBSET Nodes : deps' = [direct |-> S, table |-> EmptyFn]
  /\ pc' = "stage3"
  /\ UNCHANGED <<mode, package_name, max_depth, root, reported, total>>
  /\ UNCHANGED <<bfsVars, printVars, parseVars, fetchVars>>

\* Stage 2, mode test: deps is the table parse_test_graph returned.
LoadTestGraph ==
  /\ pc = "stage2"
  /\ mode = "test"
  /\ \E R \in Relations : deps' = [direct |-> {}, table |-> TableOf(R)]
  /\ pc' = "stage3"
  /\ UNCHANGED <<mode, package_name, max_depth, root, reported, total>>
  /\ UNCHANGED <<bfsVars, printVars, parseVars, fetchVars>>

\* Stage 3 up to the call of build_bfs_graph: the root is package_name, or in
\* test mode the first key of the table; with neither the run exits.
ChooseRoot ==
  /\ pc = "stage3"
  /\ IF package_name # ""
       THEN /\ root' = package_name
            /\ pc' = "bfs"
            /\ queue' = <<<<package_name, 0>>>>
            /\ UNCHANGED reported
       ELSE IF DOMAIN deps.table # {}
         THEN \E r \in DOMAIN deps.table :
                /\ root' = r
                /\ pc' = "bfs"
                /\ queue' = <<<<r, 0>>>>
                /\ UNCHANGED reported
         ELSE /\ reported' = "EmptyRoot"
              /\ pc' = "exit"
              /\ UNCHANGED <<root, queue>>
  /\ UNCHANGED <<mode, package_name, max_depth, deps, total>>
  /\ UNCHANGED <<graph, visited, queried, printVars, parseVars, fetchVars>>

\* One iteration of the while loop of build_bfs_graph.
BfsIteration ==
  /\ pc = "bfs"
  /\ queue # <<>>
  /\ LET node == Head(queue)[1]
         depth == Head(queue)[2]
         ds == get_deps(node)
     IN IF AlreadyVisited(node, visited)
          THEN /\ queue' = PopLeft(queue)
               /\ UNCHANGED <<graph, visited, queried>>
          ELSE /\ visited' = visited \cup {node}
               /\ queried' = Append(queried, node)
               /\ graph' = GraphUpdate(graph, node, ds)
               /\ IF BfsDescend(depth, max_depth)
                    THEN \E order \in Orderings({d \in ds : d \notin visited'}) :
                           queue' = PopLeft(queue) \o
                                    [i \in 1..Len(order) |-> <<order[i], depth + 1>>]
                    ELSE queue' = PopLeft(queue)
  /\ UNCHANGED <<mainVars, printVars, parseVars, fetchVars>>

\* build_bfs_graph returns; main calls print_tree(graph, root, max_depth).
BfsReturn ==
  /\ pc = "bfs"
  /\ queue = <<>>
  /\ pc' = "print"
  /\ stack' = <<[node |-> root, depth |-> 0, path |-> {}]>>
  /\ UNCHANGED <<mode, package_name, max_depth, deps, root, reported, total>>
  /\ UNCHANGED <<bfsVars, printed, out, parseVars, fetchVars>>

\* One call of _print.  stack holds the calls still to be made, innermost
\* first; out is the printed lines (node, depth, mark) together with the
\* call's path argument and whether the call went on to its children.
PrintCall ==
  /\ pc = "print"
  /\ stack # <<>>
  /\ LET f == Head(stack)
         mark == Annotation(f.node, f.path, printed)
         expand == mark = "" /\ ~PrintTruncate(f.depth, max_depth)
     IN /\ out' = Append(out, [node |-> f.node, depth |-> f.depth, mark |-> mark,
                               path |-> f.path, expanded |-> expand])
        /\ printed' = IF mark = "" THEN MarkPrinted(printed, f.node) ELSE printed
        /\ stack' = IF expand
                      THEN Frames(Sorted(Children(graph, f.node)), f.depth + 1,
                                  f.path \cup {f.node}) \o Tail(stack)
                      ELSE Tail(stack)
  /\ UNCHANGED <<mainVars, bfsVars, parseVars, fetchVars>>

\* print_tree returned; main counts the nodes of the graph and reports them.
ReportTotal ==
  /\ pc = "print"
  /\ stack = <<>>
  /\ total' = Cardinality(DOMAIN graph \cup UNION {graph[n] : n \in DOMAIN graph})
  /\ pc' = "done"
  /\ UNCHANGED <<mode, package_name, max_depth, deps, root, reported>>
  /\ UNCHANGED <<bfsVars, printVars, parseVars, fetchVars>>

Next ==
  \/ SourceFails
  \/ GetDirectDependencies
  \/ LoadTestGraph
  \/ ChooseRoot
  \/ BfsIteration
  \/ BfsReturn
  \/ PrintCall
  \/ ReportTotal

Spec == Init /\ [][Next]_vars

\* main() is one sequential thread: once stage 3 is entered, whenever one of
\* its steps is possible it is taken.
Stage3 == ChooseRoot \/ BfsIteration \/ BfsReturn \/ PrintCall \/ ReportTotal

\* The runs checked for termination are those configured with package_name A:
\* the tables and dependency sets range over every shape around that root.
LiveInit == Init /\ package_name = "A"

FairSpec == LiveInit /\ [][Next]_vars /\ WF_vars(Stage3)

\* ==================================================== parse_direct_deps
\* A manifest is a sequence of lines (splitlines), a line a sequence of
\* tokens: punctuation characters, one blank, and words of identifier
\* characters that the patterns never look inside.
Words == {"dependencies", "package", "target", "bin", "foo", "bar", "baz",
          "version", "1", "2"}

Q == "\""

ManifestLines ==
  { <<"[", "dependencies", "]">>,
    <<"[", "dependencies", ".", "baz", "]">>,
    <<"[", " ", "dependencies", ".", Q, "baz", Q, " ", "]", " ", "#", "bar">>,
    <<"[", "dependencies", ".", "]">>,
    <<"[", "package", "]">>,
    <<"[", "target", ".", "dependencies", "]">>,
    <<"[", "[", "bin", "]", "]">>,
    <<"foo", " ", "=", " ", Q, "1", ".", "2", Q>>,
    <<" ", "foo", "=", "2">>,
    <<"bar", "=", Q, "2", Q, " ", "#", " ", "baz", "=", "1">>,
    <<"version", " ", "=", " ", Q, "1", Q>>,
    <<"#", " ", "baz", " ", "=", " ", "1">>,
    <<Q, "bar", Q, " ", "=", " ", "1">>,
    <<"foo", " ", "bar">>,
    <<>> }

RECURSIVE SeqsUpTo(_, _)
SeqsUpTo(S, n) ==
  IF n = 0 THEN {<<>>}
  ELSE LET P == SeqsUpTo(S, n - 1)
       IN P \cup {Append(p, x) : p \in {q \in P : Len(q) = n - 1}, x \in S}

\* Index of the first occurrence of token t in l, or 0.
FirstIndex(l, t) ==
  IF \E i \in DOMAIN l : l[i] = t
    THEN CHOOSE i \in DOMAIN l : l[i] = t /\ \A j \in 1..(i - 1) : l[j] # t
    ELSE 0

\* ln.split('#', 1)[0]
BeforeHash(l) ==
  IF FirstIndex(l, "#") = 0 THEN l ELSE SubSeq(l, 1, FirstIndex(l, "#") - 1)

\* str.strip(chars), with chars a set of one-character tokens.
StripChars(l, cs) ==
  IF \A i \in DOMAIN l : l[i] \in cs THEN <<>>
  ELSE LET a == CHOOSE i \in DOMAIN l : l[i] \notin cs /\ \A j \in 1..(i - 1) : l[j] \in cs
           b == CHOOSE i \in DOMAIN l : l[i] \notin cs /\ \A j \in (i + 1)..Len(l) : l[j] \in cs
       IN SubSeq(l, a, b)

Strip(l) == StripChars(l, {" "})

\* .strip().strip('"').strip("'")
StripQuotes(l) == StripChars(StripChars(Strip(l), {Q}), {"'"})

\* SECTION_RE = ^\s*\[([^\]]+)\]\s*$ : the position of the closing bracket, or 0.
SectionClose(l) ==
  LET lead == IF \A i \in DOMAIN l : l[i] = " " THEN Len(l)
              ELSE (CHOOSE i \in DOMAIN l : l[i] # " " /\ \A j \in 1..(i - 1) : l[j] = " ") - 1
      rest == SubSeq(l, lead + 1, Len(l))
      k == FirstIndex(rest, "]")
  IN IF /\ Len(rest) >= 3
        /\ rest[1] = "["
        /\ k >= 3
        /\ \A j \in (k + 1)..Len(rest) : rest[j] = " "
       THEN lead + k
       ELSE 0

SectionMatches(l) == SectionClose(l) # 0

\* sec.group(1)
SectionGroup(l) ==
  LET k == SectionClose(l)
      open == CHOOSE i \in DOMAIN l : l[i] = "[" /\ \A j \in 1..(i - 1) : l[j] = " "
  IN SubSeq(l, open + 1, k - 1)

\* KV_RE = ^\s*([A-Za-z0-9_\-\.]+)\s*= : the length of the key run, or 0.
IsIdent(t) == t \in Words \cup {"."}

KeyRun(l) ==
  LET lead == IF \A i \in DOMAIN l : l[i] = " " THEN Len(l)
              ELSE (CHOOSE i \in DOMAIN l : l[i] # " " /\ \A j \in 1..(i - 1) : l[j] = " ") - 1
      rest == SubSeq(l, lead + 1, Len(l))
      n == IF \A i \in DOMAIN rest : IsIdent(rest[i]) THEN Len(rest)
           ELSE (CHOOSE i \in DOMAIN rest :
                   ~IsIdent(rest[i]) /\ \A j \in 1..(i - 1) : IsIdent(rest[j])) - 1
      after == SubSeq(rest, n + 1, Len(rest))
  IN IF n >= 1 /\ Strip(after) # <<>> /\ Strip(after)[1] = "="
       THEN n ELSE 0

KeyMatches(l) == KeyRun(l) # 0

\* m.group(1)
KeyGroup(l) ==
  LET r == Strip(l) IN SubSeq(r, 1, KeyRun(l))

\* current.startswith('dependencies.')
StartsWithDependenciesDot(cur) ==
  Len(cur) >= 2 /\ cur[1] = "dependencies" /\ cur[2] = "."

\* current.split('.', 1): the second element, when there is one.
HasDot(cur) == FirstIndex(cur, ".") # 0
AfterFirstDot(cur) == SubSeq(cur, FirstIndex(cur, ".") + 1, Len(cur))

\* current == 'dependencies' or (current and current.endswith('.dependencies'))
IsDepsSectionMut(cur) == cur = <<"dependencies">>
IsDepsSection(cur) ==
  \/ cur = <<"dependencies">>
  \/ /\ Len(cur) >= 2
     /\ cur[Len(cur)] = "dependencies"
     /\ cur[Len(cur) - 1] = "."

\* The section a header line leaves in force.
NextCurrent(cur, name) == name

\* parse_direct_deps(toml_text) is entered: deps = set(), current = None
\* (None and the empty string behave alike in every test the loop makes).
InitParse ==
  /\ MainIdle /\ FetchIdle
  /\ ppc = "loop"
  /\ text \in SeqsUpTo(ManifestLines, MaxLines)
  /\ idx = 1
  /\ current = <<>>
  /\ pdeps = {}

\* One iteration of the for loop over the lines.
ParseLine ==
  /\ ppc = "loop"
  /\ idx <= Len(text)
  /\ idx' = idx + 1
  /\ LET line == Strip(BeforeHash(text[idx]))
     IN IF line = <<>>
          THEN UNCHANGED <<ppc, current, pdeps>>
          ELSE IF SectionMatches(line)
            THEN LET name == Strip(SectionGroup(line))
                 IN /\ current' = NextCurrent(current, name)
                    /\ IF StartsWithDependenciesDot(name)
                         THEN IF HasDot(name)
                                THEN /\ pdeps' = IF StripQuotes(AfterFirstDot(name)) # <<>>
                                                   THEN pdeps \cup {StripQuotes(AfterFirstDot(name))}
                                                   ELSE pdeps
                                     /\ UNCHANGED ppc
                                ELSE ppc' = "raised" /\ UNCHANGED pdeps
                         ELSE UNCHANGED <<ppc, pdeps>>
            ELSE /\ UNCHANGED <<ppc, current>>
                 /\ pdeps' = IF IsDepsSection(current) /\ KeyMatches(line)
                                  /\ StripQuotes(KeyGroup(line)) # <<>>
                               THEN pdeps \cup {StripQuotes(KeyGroup(line))}
                               ELSE pdeps
  /\ UNCHANGED <<text, mainVars, bfsVars, printVars, fetchVars>>

\* The loop is over: return deps.
ParseReturn ==
  /\ ppc = "loop"
  /\ idx > Len(text)
  /\ ppc' = "returned"
  /\ UNCHANGED <<text, idx, current, pdeps, mainVars, bfsVars, printVars, fetchVars>>

NextParse == ParseLine \/ ParseReturn

SpecParse == InitParse /\ [][NextParse]_vars

\* =================================================== fetch_remote_cargo
InitFetch ==
  /\ MainIdle /\ ParseIdle
  /\ fpc = "start"
  /\ repo_url \in [host : Hosts, segs : SeqsUpTo(Segments, MaxSegs)]
  /\ branch_i = 1
  /\ attempts = <<>>
  /\ fresult = NoResult

\* The URL ends with Cargo.toml: one fetch_text(repo_url), its failure raised.
FetchDirect ==
  /\ fpc = "start"
  /\ EndsWithManifest(repo_url)
  /\ \E ok \in BOOLEAN :
       /\ attempts' = Append(attempts, [target |-> DirectTarget, ok |-> ok])
       /\ fresult' = IF ok THEN TextOf(DirectTarget) ELSE Raised("FetchError")
       /\ fpc' = IF ok THEN "returned" ELSE "raised"
  /\ UNCHANGED <<repo_url, branch_i, mainVars, bfsVars, printVars, parseVars>>

\* One iteration of the loop over the branches: fetch_text(raw), return its
\* text or continue with the next branch.
TryBranch ==
  /\ fpc = "start"
  /\ ~EndsWithManifest(repo_url)
  /\ OnGithub(repo_url)
  /\ Len(Parts(repo_url)) >= 2
  /\ branch_i <= Len(Branches)
  /\ \E ok \in BOOLEAN :
       LET raw == RawTarget(repo_url, Branches[branch_i])
       IN /\ attempts' = Append(attempts, [target |-> raw, ok |-> ok])
          /\ IF ok
               THEN fresult' = TextOf(raw) /\ fpc' = "returned" /\ UNCHANGED branch_i
               ELSE branch_i' = branch_i + 1 /\ UNCHANGED <<fresult, fpc>>
  /\ UNCHANGED <<repo_url, mainVars, bfsVars, printVars, parseVars>>

\* Every branch failed: Cargo.toml was not found on main/master.
BranchesExhausted ==
  /\ fpc = "start"
  /\ ~EndsWithManifest(repo_url)
  /\ OnGithub(repo_url)
  /\ Len(Parts(repo_url)) >= 2
  /\ branch_i > Len(Branches)
  /\ fresult' = Raised("ManifestNotFound")
  /\ fpc' = "raised"
  /\ UNCHANGED <<repo_url, branch_i, attempts, mainVars, bfsVars, printVars, parseVars>>

\* Neither a Cargo.toml link nor a GitHub repository URL.
UnsupportedUrl ==
  /\ fpc = "start"
  /\ ~EndsWithManifest(repo_url)
  /\ ~(OnGithub(repo_url) /\ Len(Parts(repo_url)) >= 2)
  /\ fresult' = Raised("UnsupportedSource")
  /\ fpc' = "raised"
  /\ UNCHANGED <<repo_url, branch_i, attempts, mainVars, bfsVars, printVars, parseVars>>

NextFetch == FetchDirect \/ TryBranch \/ BranchesExhausted \/ UnsupportedUrl

SpecFetch == InitFetch /\ [][NextFetch]_vars

\* ====================================================== claims on main()
\* The nodes within k hops of the root in the relation get_deps answers from.
RECURSIVE Within(_)
Within(k) ==
  IF k = 0 THEN {root}
  ELSE LET W == Within(k - 1) IN W \cup UNION {get_deps(n) : n \in W}

Line(n, d, m) == [node |-> n, depth |-> d, mark |-> m]

\* What print_tree wrote: one (node, depth, annotation) per line.
Lines == [i \in DOMAIN out |-> Line(out[i].node, out[i].depth, out[i].mark)]

TestTable(R) == mode = "test" /\ deps.table = TableOf(R)

CycleAB == TestTable({<<"A", "B">>, <<"B", "A">>}) /\ root = "A"
ChainABC == TestTable({<<"A", "B">>, <<"B", "C">>}) /\ root = "A"
DiamondABCD ==
  TestTable({<<"A", "B">>, <<"A", "C">>, <<"B", "D">>, <<"C", "D">>}) /\ root = "A"

\* C1: every node build_bfs_graph queries, and every key of the graph it
\* builds, lies within max_depth hops of the root; nothing farther is queried.
BfsDepthBound ==
  \A n \in Range(queried) \cup DOMAIN graph : n \in Within(max_depth)

\* C1 witness: a finished build that queried several nodes while the relation
\* reaches strictly farther than max_depth.
BfsDepthBoundWitness ==
  /\ pc = "done"
  /\ Len(queried) >= 3
  /\ Within(max_depth + 1) # Within(max_depth)

\* C2: the reported total counts only the distinct nodes within max_depth hops
\* of the root; for A -> {B}, B -> {C}, max_depth = 1 the tree is A, B and the
\* total is 2.
TotalCountsNodesWithinDepth ==
  pc = "done" =>
    /\ total = Cardinality(Within(max_depth))
    /\ (ChainABC /\ max_depth = 1) =>
         /\ Lines = <<Line("A", 0, ""), Line("B", 1, "")>>
         /\ total = 2

\* C3: one query per distinct node, the graph holds exactly what each query
\* returned, and the two-node cycle with max_depth = 5 yields {A: {B}, B: {A}}.
QueriedOncePerNode ==
  /\ \A i, j \in DOMAIN queried : queried[i] = queried[j] => i = j
  /\ DOMAIN graph = Range(queried)
  /\ \A n \in DOMAIN graph : graph[n] = get_deps(n)
  /\ (pc \in {"print", "done"} /\ CycleAB /\ max_depth = 5) =>
       /\ graph = TableOf({<<"A", "B">>, <<"B", "A">>})
       /\ Len(queried) = 2

\* C3 witness: the build of the two-node cycle with max_depth = 5 has returned.
QueriedOncePerNodeWitness ==
  pc = "done" /\ CycleAB /\ max_depth = 5 /\ queried = <<"A", "B">>

\* C4: a node that is on the current path is printed "(cycle)" and the next
\* line is not one of its children; the two-node cycle prints A, B, A (cycle).
CycleMarkedNotExpanded ==
  /\ \A i \in DOMAIN out :
       out[i].node \in out[i].path =>
         /\ out[i].mark = "cycle"
         /\ ~out[i].expanded
         /\ i < Len(out) => out[i + 1].depth <= out[i].depth
  /\ (pc = "done" /\ CycleAB /\ max_depth >= 2) =>
       Lines = <<Line("A", 0, ""), Line("B", 1, ""), Line("A", 2, "cycle")>>

\* C4 witness: the render of the two-node cycle ended on the cycle line.
CycleMarkedWitness ==
  /\ pc = "done" /\ CycleAB /\ max_depth >= 2
  /\ out[Len(out)].mark = "cycle" /\ "A" \in printed

\* C5: a node has at most one unannotated line and is expanded at most once;
\* a later occurrence off the path is "(visited)" and not expanded; in the
\* diamond D is printed once under B and "(visited)" under C.
PrintedOncePerNode ==
  /\ \A i, j \in DOMAIN out :
       (out[i].node = out[j].node /\ out[i].mark = "" /\ i < j) =>
         /\ out[j].mark # ""
         /\ ~out[j].expanded
         /\ out[j].node \notin out[j].path => out[j].mark = "visited"
  /\ (pc = "done" /\ DiamondABCD /\ max_depth >= 2) =>
       Lines = <<Line("A", 0, ""), Line("B", 1, ""), Line("D", 2, ""),
                 Line("C", 1, ""), Line("D", 2, "visited")>>

\* C5 witness: the render of the diamond ended on the "(visited)" line of D.
PrintedOnceWitness ==
  /\ pc = "done" /\ DiamondABCD /\ max_depth >= 2
  /\ out[Len(out)] = [node |-> "D", depth |-> 2, mark |-> "visited",
                      path |-> {"A", "C"}, expanded |-> FALSE]

\* C6: once the build starts, the queue empties and the render returns.
BuildAndRenderTerminate == (pc = "bfs") ~> (pc = "done")

\* C6 witness: a run over a relation with a self-loop on the root and a longer
\* cycle back to it has finished.
TerminateWitness ==
  /\ pc = "done"
  /\ root \in get_deps(root)
  /\ \E n \in get_deps(root) \ {root} : root \in get_deps(n)
  /\ max_depth >= 2

\* C7: when the dependency source fails, the builder issues no query and no
\* tree line is printed: the run has exited.
NoBuildAfterSourceFailure ==
  reported \in AllSourceErrors =>
    pc = "exit" /\ queried = <<>> /\ queue = <<>> /\ out = <<>>

\* C7 witness: a run that exited on a failed remote fetch.
SourceFailureWitness == pc = "exit" /\ mode = "remote" /\ reported = "FetchError"

\* C9: a node is printed "(visited)" only when its earlier unannotated line
\* went on to its children (or it has none).
VisitedOnlyIfExpanded ==
  \A j \in DOMAIN out :
    out[j].mark = "visited" =>
      \E i \in 1..(j - 1) :
        /\ out[i].node = out[j].node
        /\ out[i].mark = ""
        /\ out[i].expanded \/ Children(graph, out[i].node) = {}

\* ------------------------------------------- claims on parse_direct_deps
LineAt(i) == Strip(BeforeHash(text[i]))
HeaderAt(i) == SectionMatches(LineAt(i))
HeaderNameAt(i) == Strip(SectionGroup(LineAt(i)))

\* The most recent header line before line i, or 0.
LastHeaderBefore(i) ==
  IF \E j \in 1..(i - 1) : HeaderAt(j)
    THEN CHOOSE j \in 1..(i - 1) : HeaderAt(j) /\ \A k \in (j + 1)..(i - 1) : ~HeaderAt(k)
    ELSE 0

NamesDependencies(name) ==
  \/ name = <<"dependencies">>
  \/ Len(name) >= 2 /\ SubSeq(name, Len(name) - 1, Len(name)) = <<".", "dependencies">>

DependencyHeaderAt(i) ==
  /\ HeaderAt(i)
  /\ Len(HeaderNameAt(i)) >= 2
  /\ SubSeq(HeaderNameAt(i), 1, 2) = <<"dependencies", ".">>

HeaderDepAt(i) == StripQuotes(SubSeq(HeaderNameAt(i), 3, Len(HeaderNameAt(i))))

KeyLineAt(i) ==
  /\ ~HeaderAt(i)
  /\ KeyMatches(LineAt(i))
  /\ LastHeaderBefore(i) # 0
  /\ NamesDependencies(HeaderNameAt(LastHeaderBefore(i)))

\* The names the first n lines declare.
DeclaredUpTo(n) ==
  {HeaderDepAt(i) : i \in {j \in 1..n : DependencyHeaderAt(j) /\ HeaderDepAt(j) # <<>>}}
    \cup {KeyGroup(LineAt(i)) : i \in {j \in 1..n : KeyLineAt(j)}}

LineDependencies == <<"[", "dependencies", "]">>
LineDependenciesBaz == <<"[", "dependencies", ".", "baz", "]">>
LineTargetDependencies == <<"[", "target", ".", "dependencies", "]">>
LineQuotedBaz ==
  <<"[", " ", "dependencies", ".", Q, "baz", Q, " ", "]", " ", "#", "bar">>
LineFoo == <<"foo", " ", "=", " ", Q, "1", ".", "2", Q>>
LineBar == <<"bar", "=", Q, "2", Q, " ", "#", " ", "baz", "=", "1">>
LineVersion == <<"version", " ", "=", " ", Q, "1", Q>>
LineComment == <<"#", " ", "baz", " ", "=", " ", "1">>

\* C8: parse_direct_deps never raises and returns exactly the names of the
\* [dependencies.<name>] headers plus the keys of the key = value lines whose
\* most recent header is dependencies or ends with .dependencies.
ParsesDeclaredDependencies ==
  /\ ppc # "raised"
  /\ ppc \in {"loop", "returned"} => pdeps = DeclaredUpTo(idx - 1)
  /\ ppc = "returned" =>
       /\ idx = Len(text) + 1
       /\ text = <<LineDependencies, LineFoo, LineBar>> => pdeps = {<<"foo">>, <<"bar">>}
       /\ text = <<LineDependenciesBaz, LineVersion>> => pdeps = {<<"baz">>}
       /\ text = <<LineComment, <<>>, LineComment>> => pdeps = {}

\* C8 witness: a parsed manifest with a key under a .dependencies section, a
\* quoted per-dependency header and a key under that header, which is ignored.
ParsesDeclaredWitness ==
  /\ ppc = "returned"
  /\ text = <<LineTargetDependencies, LineFoo, LineQuotedBaz>>
  /\ pdeps = {<<"foo">>, <<"baz">>}

\* ------------------------------------------ claims on fetch_remote_cargo
Failed(i) == ~attempts[i].ok

\* C10: a GitHub repository URL is probed on main, then master, one fetch at
\* a time, stopping at the first success and raising not-found only after
\* both failed; a Cargo.toml URL is fetched once, with no fallback.
BranchesTriedInOrder ==
  /\ \A i \in DOMAIN attempts :
       /\ \A j \in 1..(i - 1) : Failed(j)
       /\ attempts[i].ok => i = Len(attempts) /\ fresult = TextOf(attempts[i].target)
                            /\ fpc = "returned"
  /\ fresult.status = "text" =>
       attempts # <<>> /\ attempts[Len(attempts)].ok
  /\ fpc # "idle" /\ EndsWithManifest(repo_url) =>
       /\ Len(attempts) <= 1
       /\ \A i \in DOMAIN attempts :
            /\ attempts[i].target = DirectTarget
            /\ Failed(i) => fresult = Raised("FetchError") /\ fpc = "raised"
  /\ fpc # "idle" /\ ~EndsWithManifest(repo_url) =>
       /\ Len(attempts) <= 2
       /\ \A i \in DOMAIN attempts :
            /\ OnGithub(repo_url) /\ Len(Parts(repo_url)) >= 2
            /\ attempts[i].target.kind = "raw"
            /\ attempts[i].target.branch = <<"main", "master">>[i]
       /\ fresult = Raised("ManifestNotFound") =>
            Len(attempts) = 2 /\ Failed(1) /\ Failed(2)
       /\ fresult = Raised("UnsupportedSource") => attempts = <<>>

\* C10 witness: main failed, master was fetched next and its text returned.
BranchesTriedWitness ==
  /\ fpc = "returned"
  /\ repo_url = [host |-> "github.com", segs |-> <<"owner", "repo.git">>]
  /\ Len(attempts) = 2 /\ Failed(1)
  /\ fresult = TextOf([kind |-> "raw", owner |-> "owner", repo |-> "repo",
                       branch |-> "master"])

====
